---- MODULE Spec2Model ----
(***************************************************************************)
(* Model of src/src/lib.rs (spin-langevin): the steppers                   *)
(* spin_langevin_step_old, spin_langevin_step_m1, spin_langevin_step_m0    *)
(* and the parallel step spin_langevin_step with its row stepper.          *)
(*                                                                         *)
(* Reals (f64) are modelled on the integer grid: x / k is integer          *)
(* division, f64::sqrt is the integer square root, pi is 3.  A             *)
(* Vector3d4xf64 is <<X, Y, Z>> with each component a tuple of lanes (4    *)
(* lanes; the f64 stepper's Vector3<f64> has 1 lane).  An Array2 is a      *)
(* sequence of rows, a row a sequence of cells.                            *)
(***************************************************************************)
EXTENDS Integers, Sequences, FiniteSets, TLC

VARIABLES
    fn,          \* the entry point called: "old", "m1", "m0", "par"
    pc,          \* position inside the call
    args,        \* t0, delta_t, eta, b, haml_fn, h_max, stage1_only
    m0,          \* input spins (spins_t0)
    mf,          \* output spins (spins_tf)
    work,        \* the workpad passed by the caller (old, m1, m0)
    rng,         \* the single rng of step_m1 / step_m0
    rng_arr,     \* the pool Vec<Mutex<R>>: the generators
    lock,        \* the pool Vec<Mutex<R>>: which mutexes are locked
    num_threads, \* rayon::current_num_threads()
    tasks,       \* row batches of the running parallel iterator not yet taken
    wk,          \* per worker thread: the batch it folds and what it holds
    pads,        \* the SpinLangevinRowWorkpads allocated by the init closures
    rowCnt,      \* per row: how many times the running parallel iterator processed it
    acc,         \* the partial sum of the parallel iterator's .sum()
    rowLog,      \* per row: the noise spin_langevin_step_row was handed and the
                 \* contents of the slots omega1, omega2 when it returned
    mean_o,      \* the local mean_o12 / mean_o1
    gates,       \* the stability comparisons evaluated so far
    hcalls,      \* per row: the invocations of haml_fn so far, in order
    result,      \* the value returned (or the panic message)
    pre,         \* mf, work, rng, rng_arr (chunk_array) as they were at entry
    arr,         \* xyz_to_array_chunks: the N x ncols matrix
    chunk_array  \* xyz_to_array_chunks: the lane-packed chunks

vars == <<fn, pc, args, m0, mf, work, rng, rng_arr, lock, num_threads, tasks,
          wk, pads, rowCnt, acc, rowLog, mean_o, gates, hcalls, result, pre,
          arr, chunk_array>>

----------------------------------------------------------------------------
(* Bounds of the model *)
MaxRows == 2
MaxCols == 1
MaxThreads == 2
MaxSeed == 0

(* Program constants *)
LaneW == 4
MAX_AVG_ANGULAR_FIELD == 3

----------------------------------------------------------------------------
(* Scalar arithmetic *)
Min(a, b) == IF a <= b THEN a ELSE b

RECURSIVE ISqrtB(_, _, _)
ISqrtB(n, lo, hi) ==
    IF lo >= hi THEN lo
    ELSE LET mid == (lo + hi + 1) \div 2
         IN  IF mid * mid <= n THEN ISqrtB(n, mid, hi) ELSE ISqrtB(n, lo, mid - 1)

\* f64::sqrt
ISqrt(n) == ISqrtB(n, 0, Min(n, 40000))

\* a function as its table of values
Strict(f) == f @@ <<>>

RECURSIVE SumTo(_, _)
SumTo(f, n) == IF n = 0 THEN 0 ELSE f[n] + SumTo(f, n - 1)

----------------------------------------------------------------------------
(* Lane-packed 3-vectors *)
Lanes(v) == 1..Len(v[1])

Bcast(x, y, z, w) == <<Strict([l \in 1..w |-> x]), Strict([l \in 1..w |-> y]), Strict([l \in 1..w |-> z])>>

ZeroV(w) == Bcast(0, 0, 0, w)

VAdd(a, b) == Strict([k \in 1..3 |-> Strict([l \in Lanes(a) |-> a[k][l] + b[k][l]])])

VSub(a, b) == Strict([k \in 1..3 |-> Strict([l \in Lanes(a) |-> a[k][l] - b[k][l]])])

\* v * Aligned4xf64::from(s)
VScale(a, s) == Strict([k \in 1..3 |-> Strict([l \in Lanes(a) |-> a[k][l] * s])])

\* a.cross(b)
VCross(a, b) ==
    <<Strict([l \in Lanes(a) |-> a[2][l] * b[3][l] - a[3][l] * b[2][l]]),
      Strict([l \in Lanes(a) |-> a[3][l] * b[1][l] - a[1][l] * b[3][l]]),
      Strict([l \in Lanes(a) |-> a[1][l] * b[2][l] - a[2][l] * b[1][l]])>>

\* (v[0]*v[0] + v[1]*v[1] + v[2]*v[2]).map(f64::sqrt).mean_reduce()
VNormMean(v) ==
    LET nrm == Strict([l \in Lanes(v) |->
                  ISqrt(v[1][l] * v[1][l] + v[2][l] * v[2][l] + v[3][l] * v[3][l])])
    IN  SumTo(nrm, Len(v[1])) \div Len(v[1])

----------------------------------------------------------------------------
(* Arrays *)
Rows(a) == Len(a)
Cols(a) == IF Len(a) = 0 THEN 0 ELSE Len(a[1])

\* raw_dim()
Shape(a) == <<Rows(a), Cols(a)>>

\* Array2::from_elem(sh, Zero::zero())
ZeroArr(sh, w) == Strict([r \in 1..sh[1] |-> Strict([c \in 1..sh[2] |-> ZeroV(w)])])

\* Array1::from_elem(shape, Zero::zero())
ZeroRow(s1, w) == Strict([c \in 1..s1 |-> ZeroV(w)])

\* ndarray's Zip::from(a).and(b)...: every producer has the shape of the first
ZipOk(arrs) == \A i \in 1..Len(arrs) : Shape(arrs[i]) = Shape(arrs[1])

SpinLangevinWorkpad_from_shape(s0, s1) ==
    LET z == ZeroArr(<<s0, s1>>, LaneW)
    IN  [m0 |-> z, h0 |-> z, h1 |-> z, h2 |-> z, m1 |-> z,
         omega1 |-> z, omega2 |-> z, chi1 |-> z, chi2 |-> z]

SpinLangevinM0Workpad_from_shape(s0, s1) ==
    LET z == ZeroArr(<<s0, s1>>, 1)
    IN  [m0 |-> z, h0 |-> z, h1 |-> z, m1 |-> z, omega1 |-> z, chi1 |-> z]

SpinLangevinRowWorkpad_from_shape(s1) ==
    LET z == ZeroRow(s1, LaneW)
    IN  [h0 |-> z, h1 |-> z, h2 |-> z, omega1 |-> z, omega2 |-> z,
         chi1 |-> z, chi2 |-> z]

----------------------------------------------------------------------------
(* The caller's closures *)

\* haml_fn(t, m_row, h_row): the callbacks of the model.  Each writes every
\* component of every cell of h_row.
\*   "const": h.assign(&haml) with haml = e_z (the tests' callback)
\*   "pulse": e_x up to time 0, no field afterwards
\*   "shift": the field of a spin is the next spin of the row with its
\*            components rotated cyclically (a state-dependent field)
HamlFn(k, t, m_row, h_row) ==
    Strict([c \in 1..Len(h_row) |->
        LET w == Len(h_row[c][1])
        IN  CASE k = "const" -> Bcast(0, 0, 1, w)
              [] k = "pulse" -> IF t <= 0 THEN Bcast(1, 0, 0, w) ELSE ZeroV(w)
              [] OTHER ->
                   LET n == m_row[(c % Len(m_row)) + 1]
                   IN  <<n[2], n[3], n[1]>>])

RngMod == 16

\* the generator's own step
RngNext(s) == (5 * s + 3) % RngMod

\* rand_xi_f(rng): per lane a vector along one axis with a coordinate in -1..1,
\* read off the generator
RandXi(s, w) ==
    Strict([k \in 1..3 |-> Strict([l \in 1..w |->
        IF k = ((s + l) % 3) + 1 THEN (((s \div 3) + l) % 3) - 1 ELSE 0])])

RECURSIVE RngAt(_, _)
RngAt(g, k) == IF k = 0 THEN g ELSE RngAt([s |-> RngNext(g.s), n |-> g.n + 1], k - 1)

\* for chi in row.iter_mut() { *chi = rand_xi_f(rng) * scale }
DrawRow(g, ncols, w, scale) ==
    Strict([c \in 1..ncols |-> VScale(RandXi(RngAt(g, c - 1).s, w), scale)])

\* for chi in noise_arr.iter_mut() { *chi = rand_xi_f(rng) * scale }: row-major order
DrawArr(g, noise_arr, w, scale) ==
    Strict([r \in 1..Rows(noise_arr) |-> DrawRow(RngAt(g, (r - 1) * Cols(noise_arr)), Cols(noise_arr), w, scale)])

----------------------------------------------------------------------------
(* Field, rotation and metric helpers *)

sl_add_dissipative(h_row, m_row, chi) ==
    Strict([c \in 1..Len(h_row) |->
        IF c <= Len(m_row)
        THEN VSub(h_row[c], VScale(VCross(h_row[c], m_row[c]), chi))
        ELSE h_row[c]])

h_update_row(t, eta, k, h_row, m_row) ==
    sl_add_dissipative(HamlFn(k, t, m_row, h_row), m_row, eta)

\* rows of h and m zipped by rayon: the shorter of the two decides
h_update_par(t, eta, k, h, m) ==
    Strict([r \in 1..Rows(h) |->
        IF r <= Rows(m) THEN h_update_row(t, eta, k, h[r], m[r]) ELSE h[r]])

h_update_f64(t, eta, k, h, m) ==
    Strict([r \in 1..Rows(h) |-> h_update_row(t, eta, k, h[r], m[r])])

\* the log of haml_fn invocations, per row, after one h_update over the rows of m
CallsOf(hc, t, m) ==
    Strict([r \in DOMAIN hc |->
        IF r <= Rows(m) THEN Append(hc[r], [t |-> t, m |-> m[r]]) ELSE hc[r]])

\* the same for h_update_par, whose rows are those of h zipped with those of m
CallsOfPar(hc, t, h, m) ==
    Strict([r \in DOMAIN hc |->
        IF r <= Rows(m) /\ r <= Rows(h)
        THEN Append(hc[r], [t |-> t, m |-> m[r]]) ELSE hc[r]])

\* cross_exponential_vector3d(omega, phi); phi.mul_to(spins_t0, spins_tf):
\* the exponential of the cross-product matrix of omega applied to v, to
\* first order on the integer grid: v + omega x v (identity at omega = 0)
m_update(omega, v) == VAdd(v, VCross(omega, v))

m_update_row(omega, spins_t0) ==
    Strict([c \in 1..Len(omega) |-> m_update(omega[c], spins_t0[c])])

m_update_par(omega, spins_t0) ==
    Strict([r \in 1..Rows(omega) |-> m_update_row(omega[r], spins_t0[r])])

m_update_f64(omega, spins_t0) ==
    Strict([r \in 1..Rows(omega) |-> m_update_row(omega[r], spins_t0[r])])

avg_field_row(m) ==
    SumTo(Strict([c \in 1..Len(m) |-> VNormMean(m[c])]), Len(m)) \div Len(m)

avg_field(m) ==
    SumTo(Strict([r \in 1..Rows(m) |->
             SumTo(Strict([c \in 1..Cols(m) |-> VNormMean(m[r][c])]), Cols(m))]), Rows(m))
        \div (Rows(m) * Cols(m))

avg_field_f64(m) ==
    SumTo(Strict([r \in 1..Rows(m) |->
             SumTo(Strict([c \in 1..Cols(m) |-> VNormMean(m[r][c])]), Cols(m))]), Rows(m))
        \div (Rows(m) * Cols(m))

\* *o1 = (h0 + h1) * (delta_t / 4.0) + chi1 * (delta_t / 2.0).sqrt()
Omega11Cell(h0, h1, chi1, dt) ==
    VAdd(VScale(VAdd(h0, h1), dt \div 4), VScale(chi1, ISqrt(dt \div 2)))

\* *o2 = (h0 + h1 * 4.0 + h2) * (delta_t / 6.0) + (chi1 + chi2) * (delta_t/2.0).sqrt()
Omega2Cell(h0, h1, h2, chi1, chi2, dt) ==
    VAdd(VScale(VAdd(VAdd(h0, VScale(h1, 4)), h2), dt \div 6),
         VScale(VAdd(chi1, chi2), ISqrt(dt \div 2)))

\* *o2 = (h0 + h1 * 4.0 + h2) * (delta_t / 6.0) + chi1 * (delta_t).sqrt()
OmegaM1Cell(h0, h1, h2, chi1, dt) ==
    VAdd(VScale(VAdd(VAdd(h0, VScale(h1, 4)), h2), dt \div 6),
         VScale(chi1, ISqrt(dt)))

Omega11Row(h0, h1, chi1, dt) ==
    Strict([c \in 1..Len(h0) |-> Omega11Cell(h0[c], h1[c], chi1[c], dt)])

Omega2Row(h0, h1, h2, chi1, chi2, dt) ==
    Strict([c \in 1..Len(h0) |-> Omega2Cell(h0[c], h1[c], h2[c], chi1[c], chi2[c], dt)])

Omega11Arr(h0, h1, chi1, dt) ==
    Strict([r \in 1..Rows(h0) |-> Omega11Row(h0[r], h1[r], chi1[r], dt)])

Omega2Arr(h0, h1, h2, chi1, chi2, dt) ==
    Strict([r \in 1..Rows(h0) |-> Omega2Row(h0[r], h1[r], h2[r], chi1[r], chi2[r], dt)])

OmegaM1Arr(h0, h1, h2, chi1, dt) ==
    Strict([r \in 1..Rows(h0) |->
        Strict([c \in 1..Cols(h0) |-> OmegaM1Cell(h0[r][c], h1[r][c], h2[r][c], chi1[r][c], dt)])])

\* mean >= threshold: the stability comparison
GateTriggered(mean, thr) == mean >= thr

Accept(x) == [kind |-> "Accept", metric |-> x]
Reject(x) == [kind |-> "Reject", metric |-> x]
Panic(msg) == [kind |-> "panic", msg |-> msg]
NoResult == [kind |-> "none"]

T1 == args.t0 + args.delta_t \div 2
T2 == args.t0 + args.delta_t

----------------------------------------------------------------------------
(* The inputs of a call *)
Fns == {"old", "m1", "m0", "par"}
Hamls == {"const", "pulse", "shift"}
HMaxs == {1, 50}

\* the lane width of the entry point's vectors
WidthOf(f) == IF f = "m0" THEN 1 ELSE LaneW

SpinVals(w) ==
    IF w = 1 THEN {Bcast(1, 0, 0, 1), Bcast(0, 1, 0, 1)}
    ELSE {Bcast(0, 1, 0, w),
          <<Strict([l \in 1..w |-> IF l % 3 = 1 THEN 1 ELSE 0]),
            Strict([l \in 1..w |-> IF l % 3 = 2 THEN 1 ELSE 0]),
            Strict([l \in 1..w |-> IF l % 3 = 0 THEN 1 ELSE 0])>>}

\* the input spin configurations: every spin the same, or two values alternating
SpinGrids(sh, w) ==
    {Strict([r \in 1..sh[1] |-> Strict([c \in 1..sh[2] |-> v])]) : v \in SpinVals(w)}
    \cup {Strict([r \in 1..sh[1] |-> Strict([c \in 1..sh[2] |->
               IF (r + c) % 2 = 0 THEN Bcast(0, 1, 0, w) ELSE Bcast(0, 0, 1, w)])])}

ValidShapes == (1..MaxRows) \X (1..MaxCols)
AltShapes(sh) == {sh, <<sh[1] + 1, sh[2]>>}

\* what the output buffer holds before the call
MfEntry(sh, w) == Strict([r \in 1..sh[1] |-> Strict([c \in 1..sh[2] |-> Bcast(7, 7, 7, w)])])

IdleWorker ==
    [st |-> "idle", lo |-> 0, hi |-> 0, nxt |-> 0, slot |-> -1, pad |-> 0, deq |-> <<>>]

\* a workpad built by from_shape whose pub fields chi1 and m1 were then set
WorkOf(f, shH, shChi, shM1) ==
    IF f = "par" THEN <<>>
    ELSE IF f = "m0"
    THEN [SpinLangevinM0Workpad_from_shape(shH[1], shH[2])
            EXCEPT !.chi1 = ZeroArr(shChi, 1), !.m1 = ZeroArr(shM1, 1)]
    ELSE [SpinLangevinWorkpad_from_shape(shH[1], shH[2])
            EXCEPT !.chi1 = ZeroArr(shChi, LaneW), !.m1 = ZeroArr(shM1, LaneW)]

\* a workpad left behind by earlier use: every cell of every array holds v
FillWork(w, v) ==
    Strict([f \in DOMAIN w |->
        Strict([r \in 1..Rows(w[f]) |-> Strict([c \in 1..Cols(w[f]) |->
            Bcast(v, v, v, Len(w[f][r][c][1]))])])])

\* what an array cell of a reused workpad may hold besides zero
Fills == {0, 9}

\* The calls of the model.  Four families of inputs:
\*  - one worker thread and a pool of one generator, with every combination of
\*    the numeric inputs;
\*  - any number of worker threads and any pool size, with one numeric input;
\*  - one representative call for each violated precondition;
\*  - calls with a workpad that earlier use left filled.
Init ==
    \E f \in Fns, nt \in 1..MaxThreads, nr \in 0..MaxThreads, fill \in Fills,
       b \in {-1, 0, 1} :
    LET pooled == f \in {"old", "par"} /\ (nt # 1 \/ nr # 1) IN
    /\ f \in {"m1", "m0"} => nt = 1 /\ nr = 0
    /\ fill # 0 => ~pooled /\ f # "par" /\ b = 1
    /\ (b < 0) => f # "par" /\ ~pooled
    /\ \E sh \in ValidShapes :
       \E shMf \in AltShapes(sh), shH \in AltShapes(sh),
          shChi \in AltShapes(sh), shM1 \in AltShapes(sh) :
       LET odd == b < 0 \/ shMf # sh \/ shH # sh \/ shChi # sh \/ shM1 # sh
           fixed == odd \/ pooled
           dflt == Strict([r \in 1..sh[1] |-> Strict([c \in 1..sh[2] |->
                       IF (r + c) % 2 = 0 THEN Bcast(0, 1, 0, WidthOf(f))
                       ELSE Bcast(0, 0, 1, WidthOf(f))])])
       IN
       /\ odd => /\ f # "par" /\ ~pooled /\ b \in {-1, 1} /\ fill = 0
       /\ fixed => (f = "old" \/ odd => b # 0)
       /\ f = "par" => shH = sh /\ shChi = sh /\ shM1 = sh
       /\ \E eta \in (IF fixed \/ fill # 0 THEN {1} ELSE {0, 1}),
             k \in (IF fixed THEN {"shift"} ELSE Hamls),
             hm \in (IF fixed \/ f \in {"m1", "par"} THEN {50} ELSE HMaxs),
             s1 \in (IF fixed \/ f # "old" THEN {FALSE} ELSE BOOLEAN),
             seed \in (IF fixed \/ fill # 0 THEN {0} ELSE 0..MaxSeed),
             spins \in (IF fixed \/ fill # 0 THEN {dflt}
                        ELSE SpinGrids(sh, WidthOf(f))) :
             /\ fn = f
             /\ pc = "entry"
             /\ args = [t0 |-> 0, delta_t |-> 12, eta |-> eta, b |-> b, haml_fn |-> k,
                        h_max |-> hm, stage1_only |-> s1]
             /\ m0 = spins
             /\ mf = MfEntry(shMf, WidthOf(f))
             /\ work = IF fill # 0 THEN FillWork(WorkOf(f, shH, shChi, shM1), fill)
                       ELSE WorkOf(f, shH, shChi, shM1)
             /\ rng = [s |-> seed, n |-> 0]
             /\ rng_arr = Strict([i \in 1..nr |-> [s |-> (seed + 4 * i) % RngMod, n |-> 0]])
             /\ lock = Strict([i \in 1..nr |-> FALSE])
             /\ num_threads = nt
             /\ tasks = {}
             /\ wk = Strict([w \in 0..(nt - 1) |-> IdleWorker])
             /\ pads = <<>>
             /\ rowCnt = <<>>
             /\ acc = 0
             /\ rowLog = Strict([r \in 1..sh[1] |-> <<>>])
             /\ mean_o = 0
             /\ gates = <<>>
             /\ hcalls = Strict([r \in 1..sh[1] |-> <<>>])
             /\ result = NoResult
             /\ pre = [mf |-> mf, work |-> work, rng |-> rng, rng_arr |-> rng_arr]
             /\ arr = <<>>
             /\ chunk_array = <<>>

inVars == <<fn, args, m0, num_threads, pre, arr, chunk_array>>
parVars == <<lock, tasks, wk, pads, rowCnt, acc, rowLog>>

----------------------------------------------------------------------------
(* Preconditions *)

\* faulty variant: the pool may be one generator short
RngPoolOk_OffByOne(len, n) == len + 1 >= n

\* assert!(rng_arr.len() >= num_threads, ...)
RngPoolOk(len, n) == len >= n

\* assert_eq!(m0.raw_dim(), work.h0.raw_dim()); assert_eq!(mf.raw_dim(), m0.raw_dim());
\* assert!(b >= 0.0, ...)
ShapeAndNoiseCheck ==
    IF Shape(m0) # Shape(work.h0) THEN "assertion failed: (left == right)"
    ELSE IF Shape(mf) # Shape(m0) THEN "assertion failed: (left == right)"
    ELSE IF ~(args.b >= 0) THEN "Stochastic strength must be non-negative"
    ELSE "ok"

OldPrecondition ==
    IF ShapeAndNoiseCheck # "ok" THEN ShapeAndNoiseCheck
    ELSE IF ~RngPoolOk(Len(rng_arr), num_threads)
    THEN "Insufficient number of RNGs for multithreading"
    ELSE "ok"

ParPrecondition ==
    IF Shape(mf) # Shape(m0) THEN "assertion failed: (left == right)"
    ELSE IF ~(args.b >= 0) THEN "Stochastic strength must be non-negative"
    ELSE IF ~RngPoolOk(Len(rng_arr), num_threads)
    THEN "Insufficient number of RNGs for multithreading"
    ELSE "ok"

\* the state of a parallel iterator over `rows` rows before any worker took work
StartPar(rows) ==
    /\ tasks' = IF rows >= 1 THEN {<<1, rows>>} ELSE {}
    /\ rowCnt' = Strict([r \in 1..rows |-> 0])
    /\ acc' = 0
    /\ UNCHANGED rowLog

ZipPanic == Panic("Zip: Producer dimension mismatch")

----------------------------------------------------------------------------
(* The parallel iterators: par_rng_fn_rows (pc "noise1", "noise2") and the
   map_init of spin_langevin_step (pc "rows").  The iterator's rows enter the
   pool as one batch.  A worker thread with a batch in hand either halves it,
   keeping the left half and pushing the right half on its own deque, or folds
   it: it runs the init closure, runs the body on the batch's rows in order
   and then drops what init returned.  A thread without work pops the newest
   batch of its own deque, else takes the injected batch, else steals the
   oldest batch of another thread's deque. *)

ParPcs == {"noise1", "noise2", "rows"}

\* rayon halves a batch: split_at(len / 2)
SplitAt(tk) ==
    LET mid == tk[1] + (tk[2] - tk[1] + 1) \div 2
    IN  <<<<tk[1], mid - 1>>, <<mid, tk[2]>>>>

InHand(w, tk) ==
    [wk[w] EXCEPT !.st = "hand", !.lo = tk[1], !.hi = tk[2], !.nxt = tk[1]]

\* worker w finds work
ParTake(w) ==
    /\ pc \in ParPcs
    /\ wk[w].st = "idle"
    /\ IF wk[w].deq # <<>>
       THEN /\ wk' = [wk EXCEPT ![w] =
                        [InHand(w, wk[w].deq[Len(wk[w].deq)])
                            EXCEPT !.deq = SubSeq(wk[w].deq, 1, Len(wk[w].deq) - 1)]]
            /\ UNCHANGED tasks
       ELSE IF tasks # {}
       THEN \E tk \in tasks :
               /\ tasks' = tasks \ {tk}
               /\ wk' = [wk EXCEPT ![w] = InHand(w, tk)]
       ELSE \E v \in DOMAIN wk :
               /\ v # w
               /\ wk[v].deq # <<>>
               /\ wk' = [wk EXCEPT ![w] = InHand(w, Head(wk[v].deq)),
                                   ![v].deq = Tail(wk[v].deq)]
               /\ UNCHANGED tasks
    /\ UNCHANGED <<inVars, pc, mf, work, rng, rng_arr, lock, pads, rowCnt, acc, rowLog,
                   mean_o, gates, hcalls, result>>

\* worker w halves the batch in its hand
ParSplit(w) ==
    /\ pc \in ParPcs
    /\ wk[w].st = "hand"
    /\ wk[w].hi > wk[w].lo
    /\ LET halves == SplitAt(<<wk[w].lo, wk[w].hi>>)
       IN  wk' = [wk EXCEPT ![w] =
                     [InHand(w, halves[1]) EXCEPT !.deq = Append(wk[w].deq, halves[2])]]
    /\ UNCHANGED <<inVars, pc, mf, work, rng, rng_arr, lock, tasks, pads, rowCnt, acc, rowLog,
                   mean_o, gates, hcalls, result>>

\* faulty variant: every thread uses slot 0
ThreadIndex_Zero(w) == 0

\* rayon::current_thread_index().unwrap_or(0) on worker thread w
ThreadIndex(w) == w

\* mrng.try_lock(): Ok exactly when the mutex is not held
TryLockOk(held) == ~held

\* the init closure on worker w, for the batch in its hand
ParInit(w) ==
    /\ pc \in ParPcs
    /\ wk[w].st = "hand"
    /\ LET i == ThreadIndex(w)
       IN  IF i + 1 > Len(rng_arr)
           THEN /\ pc' = "panic"
                /\ result' = Panic("index out of bounds")
                /\ UNCHANGED <<lock, wk, pads>>
           ELSE IF ~TryLockOk(lock[i + 1])
           THEN /\ pc' = "panic"
                /\ result' = Panic("unexpected mutex lock")
                /\ UNCHANGED <<lock, wk, pads>>
           ELSE /\ lock' = [lock EXCEPT ![i + 1] = TRUE]
                /\ pads' = IF pc = "rows"
                           THEN Append(pads, SpinLangevinRowWorkpad_from_shape(Cols(mf)))
                           ELSE pads
                /\ wk' = [wk EXCEPT ![w].st = "busy", ![w].slot = i,
                                    ![w].pad = IF pc = "rows" THEN Len(pads) + 1 ELSE 0]
                /\ UNCHANGED <<pc, result>>
    /\ UNCHANGED <<inVars, mf, work, rng, rng_arr, tasks, rowCnt, acc, rowLog, mean_o, gates,
                   hcalls>>

\* faulty variant: the slots are not swapped, omega_11 and omega_f live in omega1
spin_langevin_step_row_NoSwap(t0, delta_t, eta, k, m0r, pad) ==
    LET t1 == t0 + delta_t \div 2
        t2 == t0 + delta_t
        haml0 == h_update_row(t0, eta, k, pad.h0, m0r)
        haml1a == h_update_row(t1, eta, k, pad.h1, m0r)
        haml2a == h_update_row(t2, eta, k, pad.h2, m0r)
        omega11 == Omega11Row(haml0, haml1a, pad.chi1, delta_t)
        omega12 == Omega2Row(haml0, haml1a, haml2a, pad.chi1, pad.chi2, delta_t)
        m21 == m_update_row(omega11, m0r)
        haml1 == h_update_row(t1, eta, k, haml1a, m21)
        m22 == m_update_row(omega12, m0r)
        haml2 == h_update_row(t2, eta, k, haml2a, m22)
        omega_f == Omega2Row(haml0, haml1, haml2, pad.chi1, pad.chi2, delta_t)
    IN  [mf |-> m_update_row(omega_f, m0r),
         pad |-> [pad EXCEPT !.h0 = haml0, !.h1 = haml1, !.h2 = haml2,
                             !.omega1 = omega_f, !.omega2 = omega12],
         calls |-> <<[t |-> t0, m |-> m0r], [t |-> t1, m |-> m0r], [t |-> t2, m |-> m0r],
                     [t |-> t1, m |-> m21], [t |-> t2, m |-> m22]>>]

\* faulty variant: the final generator is built from the stage-1 field H11
spin_langevin_step_row_StaleH1(t0, delta_t, eta, k, m0r, pad) ==
    LET t1 == t0 + delta_t \div 2
        t2 == t0 + delta_t
        haml0 == h_update_row(t0, eta, k, pad.h0, m0r)
        haml1a == h_update_row(t1, eta, k, pad.h1, m0r)
        haml2a == h_update_row(t2, eta, k, pad.h2, m0r)
        omega11 == Omega11Row(haml0, haml1a, pad.chi1, delta_t)
        omega12 == Omega2Row(haml0, haml1a, haml2a, pad.chi1, pad.chi2, delta_t)
        m21 == m_update_row(omega11, m0r)
        haml1 == h_update_row(t1, eta, k, haml1a, m21)
        m22 == m_update_row(omega12, m0r)
        haml2 == h_update_row(t2, eta, k, haml2a, m22)
        omega_f == Omega2Row(haml0, haml1a, haml2, pad.chi1, pad.chi2, delta_t)
    IN  [mf |-> m_update_row(omega_f, m0r),
         pad |-> [pad EXCEPT !.h0 = haml0, !.h1 = haml1, !.h2 = haml2,
                             !.omega1 = omega12, !.omega2 = omega_f],
         calls |-> <<[t |-> t0, m |-> m0r], [t |-> t1, m |-> m0r], [t |-> t2, m |-> m0r],
                     [t |-> t1, m |-> m21], [t |-> t2, m |-> m22]>>]

\* spin_langevin_step_row on one row: what it leaves in mf and in the slots
\* it was handed, and the callback invocations it made, in order
spin_langevin_step_row(t0, delta_t, eta, k, m0r, pad) ==
    LET t1 == t0 + delta_t \div 2
        t2 == t0 + delta_t
        haml0 == h_update_row(t0, eta, k, pad.h0, m0r)
        haml1a == h_update_row(t1, eta, k, pad.h1, m0r)
        haml2a == h_update_row(t2, eta, k, pad.h2, m0r)
        \* swapped order for function post-condition
        omega11 == Omega11Row(haml0, haml1a, pad.chi1, delta_t)
        omega12 == Omega2Row(haml0, haml1a, haml2a, pad.chi1, pad.chi2, delta_t)
        m21 == m_update_row(omega11, m0r)
        haml1 == h_update_row(t1, eta, k, haml1a, m21)
        m22 == m_update_row(omega12, m0r)
        haml2 == h_update_row(t2, eta, k, haml2a, m22)
        omega_f == Omega2Row(haml0, haml1, haml2, pad.chi1, pad.chi2, delta_t)
    IN  [mf |-> m_update_row(omega_f, m0r),
         pad |-> [pad EXCEPT !.h0 = haml0, !.h1 = haml1, !.h2 = haml2,
                             !.omega1 = omega12, !.omega2 = omega_f],
         calls |-> <<[t |-> t0, m |-> m0r], [t |-> t1, m |-> m0r], [t |-> t2, m |-> m0r],
                     [t |-> t1, m |-> m21], [t |-> t2, m |-> m22]>>]

\* faulty variant: the second noise row is not redrawn for the row
ParRow_StaleChi2(w) ==
    /\ pc \in ParPcs
    /\ wk[w].st = "busy"
    /\ wk[w].nxt <= wk[w].hi
    /\ LET r == wk[w].nxt
           i == wk[w].slot + 1
           g == rng_arr[i]
           b_sqrt == ISqrt(args.b)
       IN  /\ wk' = [wk EXCEPT ![w].nxt = r + 1]
           /\ rowCnt' = [rowCnt EXCEPT ![r] = @ + 1]
           /\ IF pc = "noise1"
              THEN /\ work' = [work EXCEPT !.chi1[r] =
                                  DrawRow(g, Len(work.chi1[r]), LaneW, b_sqrt)]
                   /\ rng_arr' = [rng_arr EXCEPT ![i] = RngAt(g, Len(work.chi1[r]))]
                   /\ UNCHANGED <<mf, pads, acc, rowLog, hcalls>>
              ELSE IF pc = "noise2"
              THEN /\ work' = [work EXCEPT !.chi2[r] =
                                  DrawRow(g, Len(work.chi2[r]), LaneW, b_sqrt)]
                   /\ rng_arr' = [rng_arr EXCEPT ![i] = RngAt(g, Len(work.chi2[r]))]
                   /\ UNCHANGED <<mf, pads, acc, rowLog, hcalls>>
              ELSE LET p0 == pads[wk[w].pad]
                       n == Len(p0.chi1)
                       p1 == [p0 EXCEPT !.chi1 = DrawRow(g, n, LaneW, b_sqrt)]
                       out == spin_langevin_step_row(args.t0, args.delta_t, args.eta,
                                                     args.haml_fn, m0[r], p1)
                   IN  /\ rng_arr' = [rng_arr EXCEPT ![i] = RngAt(g, 2 * n)]
                       /\ pads' = [pads EXCEPT ![wk[w].pad] = out.pad]
                       /\ mf' = [mf EXCEPT ![r] = out.mf]
                       /\ hcalls' = [hcalls EXCEPT ![r] = @ \o out.calls]
                       /\ acc' = acc + avg_field_row(out.pad.omega2)
                       /\ rowLog' = [rowLog EXCEPT ![r] =
                              Append(@, [chi1 |-> p1.chi1, chi2 |-> p1.chi2,
                                         omega1 |-> out.pad.omega1,
                                         omega2 |-> out.pad.omega2])]
                       /\ UNCHANGED work
    /\ UNCHANGED <<inVars, pc, rng, lock, tasks, mean_o, gates, result>>

\* the body of the parallel closure on worker w for its next row
ParRow(w) ==
    /\ pc \in ParPcs
    /\ wk[w].st = "busy"
    /\ wk[w].nxt <= wk[w].hi
    /\ LET r == wk[w].nxt
           i == wk[w].slot + 1
           g == rng_arr[i]
           b_sqrt == ISqrt(args.b)
       IN  /\ wk' = [wk EXCEPT ![w].nxt = r + 1]
           /\ rowCnt' = [rowCnt EXCEPT ![r] = @ + 1]
           /\ IF pc = "noise1"
              THEN /\ work' = [work EXCEPT !.chi1[r] =
                                  DrawRow(g, Len(work.chi1[r]), LaneW, b_sqrt)]
                   /\ rng_arr' = [rng_arr EXCEPT ![i] = RngAt(g, Len(work.chi1[r]))]
                   /\ UNCHANGED <<mf, pads, acc, rowLog, hcalls>>
              ELSE IF pc = "noise2"
              THEN /\ work' = [work EXCEPT !.chi2[r] =
                                  DrawRow(g, Len(work.chi2[r]), LaneW, b_sqrt)]
                   /\ rng_arr' = [rng_arr EXCEPT ![i] = RngAt(g, Len(work.chi2[r]))]
                   /\ UNCHANGED <<mf, pads, acc, rowLog, hcalls>>
              ELSE LET p0 == pads[wk[w].pad]
                       n == Len(p0.chi1)
                       p1 == [p0 EXCEPT !.chi1 = DrawRow(g, n, LaneW, b_sqrt),
                                        !.chi2 = DrawRow(RngAt(g, n), n, LaneW, b_sqrt)]
                       out == spin_langevin_step_row(args.t0, args.delta_t, args.eta,
                                                     args.haml_fn, m0[r], p1)
                   IN  /\ rng_arr' = [rng_arr EXCEPT ![i] = RngAt(g, 2 * n)]
                       /\ pads' = [pads EXCEPT ![wk[w].pad] = out.pad]
                       /\ mf' = [mf EXCEPT ![r] = out.mf]
                       /\ hcalls' = [hcalls EXCEPT ![r] = @ \o out.calls]
                       /\ acc' = acc + avg_field_row(out.pad.omega2)
                       /\ rowLog' = [rowLog EXCEPT ![r] =
                              Append(@, [chi1 |-> p1.chi1, chi2 |-> p1.chi2,
                                         omega1 |-> out.pad.omega1,
                                         omega2 |-> out.pad.omega2])]
                       /\ UNCHANGED work
    /\ UNCHANGED <<inVars, pc, rng, lock, tasks, mean_o, gates, result>>

\* faulty variant: the guard is kept when the batch is folded
ParFinish_KeepGuard(w) ==
    /\ pc \in ParPcs
    /\ wk[w].st = "busy"
    /\ wk[w].nxt > wk[w].hi
    /\ wk' = [wk EXCEPT ![w].st = "idle", ![w].lo = 0, ![w].hi = 0, ![w].nxt = 0,
                        ![w].slot = -1, ![w].pad = 0]
    /\ UNCHANGED <<inVars, pc, mf, work, rng, rng_arr, lock, tasks, pads, rowCnt, acc, rowLog,
                   mean_o, gates, hcalls, result>>

\* the batch is folded: the MutexGuard (and the row workpad) is dropped
ParFinish(w) ==
    /\ pc \in ParPcs
    /\ wk[w].st = "busy"
    /\ wk[w].nxt > wk[w].hi
    /\ lock' = [lock EXCEPT ![wk[w].slot + 1] = FALSE]
    /\ wk' = [wk EXCEPT ![w].st = "idle", ![w].lo = 0, ![w].hi = 0, ![w].nxt = 0,
                        ![w].slot = -1, ![w].pad = 0]
    /\ UNCHANGED <<inVars, pc, mf, work, rng, rng_arr, tasks, pads, rowCnt, acc, rowLog,
                   mean_o, gates, hcalls, result>>

\* the parallel iterator has returned
ParIdle == tasks = {} /\ \A w \in DOMAIN wk : wk[w].st = "idle" /\ wk[w].deq = <<>>

----------------------------------------------------------------------------
(* spin_langevin_step *)

ParEntry ==
    /\ fn = "par" /\ pc = "entry"
    /\ IF ParPrecondition # "ok"
       THEN /\ pc' = "panic"
            /\ result' = Panic(ParPrecondition)
            /\ UNCHANGED <<tasks, rowCnt, acc, rowLog>>
       ELSE /\ pc' = "rows"
            /\ StartPar(Rows(m0))
            /\ UNCHANGED result
    /\ UNCHANGED <<inVars, mf, work, rng, rng_arr, lock, wk, pads, mean_o, gates, hcalls>>

\* .sum(); avg_om / h_shape.0
ParReduce ==
    /\ fn = "par" /\ pc = "rows" /\ ParIdle
    /\ pc' = "done"
    /\ result' = [kind |-> "value", metric |-> acc \div Rows(m0)]
    /\ UNCHANGED <<inVars, mf, work, rng, rng_arr, parVars, mean_o, gates, hcalls>>

----------------------------------------------------------------------------
(* spin_langevin_step_old *)

OldEntry ==
    /\ fn = "old" /\ pc = "entry"
    /\ IF OldPrecondition # "ok"
       THEN /\ pc' = "panic"
            /\ result' = Panic(OldPrecondition)
            /\ UNCHANGED <<tasks, rowCnt, acc, rowLog>>
       ELSE /\ pc' = "noise1"
            /\ StartPar(Rows(work.chi1))
            /\ UNCHANGED result
    /\ UNCHANGED <<inVars, mf, work, rng, rng_arr, lock, wk, pads, mean_o, gates, hcalls>>

\* par_rng_fn_rows(noise_1, ...) returned
OldNoise1Done ==
    /\ fn = "old" /\ pc = "noise1" /\ ParIdle
    /\ pc' = "noise2"
    /\ StartPar(Rows(work.chi2))
    /\ UNCHANGED <<inVars, mf, work, rng, rng_arr, lock, wk, pads, mean_o, gates,
                   hcalls, result>>

\* par_rng_fn_rows(noise_2, ...) returned
OldNoise2Done ==
    /\ fn = "old" /\ pc = "noise2" /\ ParIdle
    /\ pc' = "stage1"
    /\ UNCHANGED <<inVars, mf, work, rng, rng_arr, parVars, mean_o, gates, hcalls, result>>

\* the three field evaluations with m0, then omega_11 and omega_12
OldStage1 ==
    /\ fn = "old" /\ pc = "stage1"
    /\ LET dt == args.delta_t
           haml_10 == h_update_par(args.t0, args.eta, args.haml_fn, work.h0, m0)
           haml_11 == h_update_par(T1, args.eta, args.haml_fn, work.h1, m0)
           haml_12 == h_update_par(T2, args.eta, args.haml_fn, work.h2, m0)
           w1 == [work EXCEPT !.h0 = haml_10, !.h1 = haml_11, !.h2 = haml_12]
           w2 == [w1 EXCEPT !.omega1 = Omega11Arr(haml_10, haml_11, work.chi1, dt)]
           w3 == [w2 EXCEPT !.omega2 =
                     Omega2Arr(haml_10, haml_11, haml_12, work.chi1, work.chi2, dt)]
       IN  /\ hcalls' = CallsOfPar(CallsOfPar(CallsOfPar(hcalls, args.t0, work.h0, m0),
                                               T1, work.h1, m0), T2, work.h2, m0)
           /\ IF ~ZipOk(<<haml_10, haml_11, work.omega1, work.chi1>>)
              THEN work' = w1 /\ pc' = "panic" /\ result' = ZipPanic
              ELSE IF ~ZipOk(<<haml_10, haml_11, haml_12, work.omega2, work.chi1, work.chi2>>)
              THEN work' = w2 /\ pc' = "panic" /\ result' = ZipPanic
              ELSE work' = w3 /\ pc' = "gate" /\ UNCHANGED result
    /\ UNCHANGED <<inVars, mf, rng, rng_arr, parVars, mean_o, gates>>

\* faulty variant: the output buffer is written before the comparison
OldGate_WriteFirst ==
    /\ fn = "old" /\ pc = "gate"
    /\ LET mean_o12 == avg_field(work.omega2)
       IN  /\ mean_o' = mean_o12
           /\ mf' = m_update_par(work.omega2, m0)
           /\ gates' = Append(gates, [gen |-> work.omega2, mean |-> mean_o12,
                                      thr |-> args.h_max])
           /\ IF GateTriggered(mean_o12, args.h_max)
              THEN pc' = "done" /\ result' = Reject(mean_o12)
              ELSE /\ pc' = IF args.stage1_only THEN "short" ELSE "stage2_21"
                   /\ UNCHANGED result
    /\ UNCHANGED <<inVars, work, rng, rng_arr, parVars, hcalls>>

\* faulty variant: the comparison is against the fixed constant
OldGate_Pi ==
    /\ fn = "old" /\ pc = "gate"
    /\ LET mean_o12 == avg_field(work.omega2)
       IN  /\ mean_o' = mean_o12
           /\ gates' = Append(gates, [gen |-> work.omega2, mean |-> mean_o12,
                                      thr |-> MAX_AVG_ANGULAR_FIELD])
           /\ IF GateTriggered(mean_o12, MAX_AVG_ANGULAR_FIELD)
              THEN pc' = "done" /\ result' = Reject(mean_o12)
              ELSE /\ pc' = IF args.stage1_only THEN "short" ELSE "stage2_21"
                   /\ UNCHANGED result
    /\ UNCHANGED <<inVars, mf, work, rng, rng_arr, parVars, hcalls>>

\* let mean_o12 = avg_field(omega_12); if mean_o12 >= opts.h_max { return Reject }
OldGate ==
    /\ fn = "old" /\ pc = "gate"
    /\ LET mean_o12 == avg_field(work.omega2)
       IN  /\ mean_o' = mean_o12
           /\ gates' = Append(gates, [gen |-> work.omega2, mean |-> mean_o12,
                                      thr |-> args.h_max])
           /\ IF GateTriggered(mean_o12, args.h_max)
              THEN pc' = "done" /\ result' = Reject(mean_o12)
              ELSE /\ pc' = IF args.stage1_only THEN "short" ELSE "stage2_21"
                   /\ UNCHANGED result
    /\ UNCHANGED <<inVars, mf, work, rng, rng_arr, parVars, hcalls>>

\* faulty variant: the short circuit propagates with omega_11
OldShort_Omega11 ==
    /\ fn = "old" /\ pc = "short"
    /\ mf' = m_update_par(work.omega1, m0)
    /\ pc' = "done"
    /\ result' = Accept(mean_o)
    /\ UNCHANGED <<inVars, work, rng, rng_arr, parVars, mean_o, gates, hcalls>>

\* if opts.stage1_only { m_update_par(omega_12, spins_t0, spins_t); return Accept }
OldShort ==
    /\ fn = "old" /\ pc = "short"
    /\ mf' = m_update_par(work.omega2, m0)
    /\ pc' = "done"
    /\ result' = Accept(mean_o)
    /\ UNCHANGED <<inVars, work, rng, rng_arr, parVars, mean_o, gates, hcalls>>

\* faulty variant: H21 is evaluated at the spins of t0
OldStage21_StaleSpins ==
    /\ fn = "old" /\ pc = "stage2_21"
    /\ LET spins_t == m_update_par(work.omega1, m0)
       IN  /\ mf' = spins_t
           /\ work' = [work EXCEPT !.h1 =
                          h_update_par(T1, args.eta, args.haml_fn, work.h1, m0)]
           /\ hcalls' = CallsOfPar(hcalls, T1, work.h1, m0)
    /\ pc' = "stage2_22"
    /\ UNCHANGED <<inVars, rng, rng_arr, parVars, mean_o, gates, result>>

\* Evaluate m21 then update H21
OldStage21 ==
    /\ fn = "old" /\ pc = "stage2_21"
    /\ LET spins_t == m_update_par(work.omega1, m0)
       IN  /\ mf' = spins_t
           /\ work' = [work EXCEPT !.h1 =
                          h_update_par(T1, args.eta, args.haml_fn, work.h1, spins_t)]
           /\ hcalls' = CallsOfPar(hcalls, T1, work.h1, spins_t)
    /\ pc' = "stage2_22"
    /\ UNCHANGED <<inVars, rng, rng_arr, parVars, mean_o, gates, result>>

\* Evaluate m22 then update H22
OldStage22 ==
    /\ fn = "old" /\ pc = "stage2_22"
    /\ LET spins_t == m_update_par(work.omega2, m0)
       IN  /\ mf' = spins_t
           /\ work' = [work EXCEPT !.h2 =
                          h_update_par(T2, args.eta, args.haml_fn, work.h2, spins_t)]
           /\ hcalls' = CallsOfPar(hcalls, T2, work.h2, spins_t)
    /\ pc' = "final"
    /\ UNCHANGED <<inVars, rng, rng_arr, parVars, mean_o, gates, result>>

\* faulty variant: the stage-2 generator is gated again
OldFinal_Regate ==
    /\ fn = "old" /\ pc = "final"
    /\ LET omega2 == Omega2Arr(work.h0, work.h1, work.h2, work.chi1, work.chi2,
                               args.delta_t)
           mean_o22 == avg_field(omega2)
       IN  /\ work' = [work EXCEPT !.omega2 = omega2]
           /\ gates' = Append(gates, [gen |-> omega2, mean |-> mean_o22,
                                      thr |-> args.h_max])
           /\ IF GateTriggered(mean_o22, args.h_max)
              THEN result' = Reject(mean_o22) /\ UNCHANGED mf
              ELSE result' = Accept(mean_o22) /\ mf' = m_update_par(omega2, m0)
    /\ pc' = "done"
    /\ UNCHANGED <<inVars, rng, rng_arr, parVars, mean_o, hcalls>>

\* faulty variant: the final propagation starts from the intermediate state in the buffer
OldFinal_FromBuffer ==
    /\ fn = "old" /\ pc = "final"
    /\ LET omega2 == Omega2Arr(work.h0, work.h1, work.h2, work.chi1, work.chi2,
                               args.delta_t)
       IN  /\ work' = [work EXCEPT !.omega2 = omega2]
           /\ mf' = m_update_par(omega2, mf)
           /\ result' = Accept(avg_field(omega2))
    /\ pc' = "done"
    /\ UNCHANGED <<inVars, rng, rng_arr, parVars, mean_o, gates, hcalls>>

\* Finally evaluate \Omega_2, propagate m[0] to m[\delta_t], return Accept(mean_o22)
OldFinal ==
    /\ fn = "old" /\ pc = "final"
    /\ LET omega2 == Omega2Arr(work.h0, work.h1, work.h2, work.chi1, work.chi2,
                               args.delta_t)
       IN  /\ work' = [work EXCEPT !.omega2 = omega2]
           /\ mf' = m_update_par(omega2, m0)
           /\ result' = Accept(avg_field(omega2))
    /\ pc' = "done"
    /\ UNCHANGED <<inVars, rng, rng_arr, parVars, mean_o, gates, hcalls>>

----------------------------------------------------------------------------
(* spin_langevin_step_m1 *)

M1Entry ==
    /\ fn = "m1" /\ pc = "entry"
    /\ IF ShapeAndNoiseCheck # "ok"
       THEN pc' = "panic" /\ result' = Panic(ShapeAndNoiseCheck)
       ELSE pc' = "noise" /\ UNCHANGED result
    /\ UNCHANGED <<inVars, mf, work, rng, rng_arr, parVars, mean_o, gates, hcalls>>

\* for chi1 in noise_1.iter_mut() { *chi1 = rand_xi_f(rng) * b_sqrt; }
M1Noise ==
    /\ fn = "m1" /\ pc = "noise"
    /\ work' = [work EXCEPT !.chi1 = DrawArr(rng, work.chi1, LaneW, ISqrt(args.b))]
    /\ rng' = RngAt(rng, Rows(work.chi1) * Cols(work.chi1))
    /\ pc' = "stage1"
    /\ UNCHANGED <<inVars, mf, rng_arr, parVars, mean_o, gates, hcalls, result>>

\* faulty variant: the generator also reads chi2, which this stepper never draws
M1Stage1_ReadsChi2 ==
    /\ fn = "m1" /\ pc = "stage1"
    /\ LET haml_10 == h_update_par(args.t0, args.eta, args.haml_fn, work.h0, m0)
           haml_11 == h_update_par(T1, args.eta, args.haml_fn, work.h1, m0)
           haml_12 == h_update_par(T2, args.eta, args.haml_fn, work.h2, m0)
           chi12 == Strict([r \in 1..Rows(work.chi1) |->
                       Strict([c \in 1..Cols(work.chi1) |->
                           VAdd(work.chi1[r][c], work.chi2[r][c])])])
           w1 == [work EXCEPT !.h0 = haml_10, !.h1 = haml_11, !.h2 = haml_12]
           w2 == [w1 EXCEPT !.omega2 =
                     OmegaM1Arr(haml_10, haml_11, haml_12, chi12, args.delta_t)]
       IN  /\ hcalls' = CallsOf(CallsOf(CallsOf(hcalls, args.t0, m0), T1, m0), T2, m0)
           /\ IF ~ZipOk(<<haml_10, haml_11, haml_12, work.omega2, work.chi1>>)
              THEN work' = w1 /\ pc' = "panic" /\ result' = ZipPanic
              ELSE work' = w2 /\ pc' = "gate" /\ UNCHANGED result
    /\ UNCHANGED <<inVars, mf, rng, rng_arr, parVars, mean_o, gates>>

\* the three field evaluations with m0, then the generator into work.omega2
M1Stage1 ==
    /\ fn = "m1" /\ pc = "stage1"
    /\ LET haml_10 == h_update_par(args.t0, args.eta, args.haml_fn, work.h0, m0)
           haml_11 == h_update_par(T1, args.eta, args.haml_fn, work.h1, m0)
           haml_12 == h_update_par(T2, args.eta, args.haml_fn, work.h2, m0)
           w1 == [work EXCEPT !.h0 = haml_10, !.h1 = haml_11, !.h2 = haml_12]
           w2 == [w1 EXCEPT !.omega2 =
                     OmegaM1Arr(haml_10, haml_11, haml_12, work.chi1, args.delta_t)]
       IN  /\ hcalls' = CallsOf(CallsOf(CallsOf(hcalls, args.t0, m0), T1, m0), T2, m0)
           /\ IF ~ZipOk(<<haml_10, haml_11, haml_12, work.omega2, work.chi1>>)
              THEN work' = w1 /\ pc' = "panic" /\ result' = ZipPanic
              ELSE work' = w2 /\ pc' = "gate" /\ UNCHANGED result
    /\ UNCHANGED <<inVars, mf, rng, rng_arr, parVars, mean_o, gates>>

\* if mean_o12 >= MAX_AVG_ANGULAR_FIELD { return Reject(mean_o12) }
M1Gate ==
    /\ fn = "m1" /\ pc = "gate"
    /\ LET mean_o12 == avg_field(work.omega2)
       IN  /\ mean_o' = mean_o12
           /\ gates' = Append(gates, [gen |-> work.omega2, mean |-> mean_o12,
                                      thr |-> MAX_AVG_ANGULAR_FIELD])
           /\ IF GateTriggered(mean_o12, MAX_AVG_ANGULAR_FIELD)
              THEN pc' = "done" /\ result' = Reject(mean_o12)
              ELSE pc' = "final" /\ UNCHANGED result
    /\ UNCHANGED <<inVars, mf, work, rng, rng_arr, parVars, hcalls>>

\* m_update_par(omega_12, spins_t0, spins_t); return Accept(mean_o12)
M1Final ==
    /\ fn = "m1" /\ pc = "final"
    /\ mf' = m_update_par(work.omega2, m0)
    /\ pc' = "done"
    /\ result' = Accept(mean_o)
    /\ UNCHANGED <<inVars, work, rng, rng_arr, parVars, mean_o, gates, hcalls>>

----------------------------------------------------------------------------
(* spin_langevin_step_m0 *)

M0Entry ==
    /\ fn = "m0" /\ pc = "entry"
    /\ IF ShapeAndNoiseCheck # "ok"
       THEN pc' = "panic" /\ result' = Panic(ShapeAndNoiseCheck)
       ELSE pc' = "field" /\ UNCHANGED result
    /\ UNCHANGED <<inVars, mf, work, rng, rng_arr, parVars, mean_o, gates, hcalls>>

\* h_update(t1, haml_10, m0); *o1 = h0 * delta_t
M0Field ==
    /\ fn = "m0" /\ pc = "field"
    /\ LET haml_10 == h_update_f64(T1, args.eta, args.haml_fn, work.h0, m0)
           omega_1 == Strict([r \in 1..Rows(haml_10) |->
                          Strict([c \in 1..Cols(haml_10) |-> VScale(haml_10[r][c], args.delta_t)])])
       IN  /\ hcalls' = CallsOf(hcalls, T1, m0)
           /\ IF ~ZipOk(<<haml_10, work.omega1>>)
              THEN /\ work' = [work EXCEPT !.h0 = haml_10]
                   /\ pc' = "panic" /\ result' = ZipPanic
              ELSE /\ work' = [work EXCEPT !.h0 = haml_10, !.omega1 = omega_1]
                   /\ pc' = "gate" /\ UNCHANGED result
    /\ UNCHANGED <<inVars, mf, rng, rng_arr, parVars, mean_o, gates>>

\* faulty variant: the noise grid is drawn before the comparison
M0Gate_DrawFirst ==
    /\ fn = "m0" /\ pc = "gate"
    /\ LET mean_o1 == avg_field_f64(work.omega1)
       IN  /\ mean_o' = mean_o1
           /\ gates' = Append(gates, [gen |-> work.omega1, mean |-> mean_o1,
                                      thr |-> args.h_max])
           /\ work' = [work EXCEPT !.chi1 =
                          DrawArr(rng, work.chi1, 1, ISqrt(args.b) * ISqrt(args.delta_t))]
           /\ rng' = RngAt(rng, Rows(work.chi1) * Cols(work.chi1))
           /\ IF GateTriggered(mean_o1, args.h_max)
              THEN pc' = "done" /\ result' = Reject(mean_o1)
              ELSE pc' = "rotate" /\ UNCHANGED result
    /\ UNCHANGED <<inVars, mf, rng_arr, parVars, hcalls>>

\* let mean_o1 = avg_field_f64(omega_1); if mean_o1 >= h_max { return Reject(mean_o1) }
M0Gate ==
    /\ fn = "m0" /\ pc = "gate"
    /\ LET mean_o1 == avg_field_f64(work.omega1)
       IN  /\ mean_o' = mean_o1
           /\ gates' = Append(gates, [gen |-> work.omega1, mean |-> mean_o1,
                                      thr |-> args.h_max])
           /\ IF GateTriggered(mean_o1, args.h_max)
              THEN pc' = "done" /\ result' = Reject(mean_o1)
              ELSE pc' = "rotate" /\ UNCHANGED result
    /\ UNCHANGED <<inVars, mf, work, rng, rng_arr, parVars, hcalls>>

\* m_update_f64(omega_1, m0, m1)
M0Rotate ==
    /\ fn = "m0" /\ pc = "rotate"
    /\ IF ~ZipOk(<<work.omega1, m0, work.m1>>)
       THEN pc' = "panic" /\ result' = ZipPanic /\ UNCHANGED work
       ELSE /\ work' = [work EXCEPT !.m1 = m_update_f64(work.omega1, m0)]
            /\ pc' = "noise" /\ UNCHANGED result
    /\ UNCHANGED <<inVars, mf, rng, rng_arr, parVars, mean_o, gates, hcalls>>

\* for chi1 in noise_1.iter_mut() { *chi1 = rand_xi_f(rng) * b_sqrt * (delta_t).sqrt(); }
M0Noise ==
    /\ fn = "m0" /\ pc = "noise"
    /\ work' = [work EXCEPT !.chi1 =
                   DrawArr(rng, work.chi1, 1, ISqrt(args.b) * ISqrt(args.delta_t))]
    /\ rng' = RngAt(rng, Rows(work.chi1) * Cols(work.chi1))
    /\ pc' = "final"
    /\ UNCHANGED <<inVars, mf, rng_arr, parVars, mean_o, gates, hcalls, result>>

\* faulty variant: the noise rotation is applied to the input spins
M0Final_FromM0 ==
    /\ fn = "m0" /\ pc = "final"
    /\ IF ~ZipOk(<<work.chi1, work.m1, mf>>)
       THEN pc' = "panic" /\ result' = ZipPanic /\ UNCHANGED mf
       ELSE /\ mf' = m_update_f64(work.chi1, m0)
            /\ pc' = "done" /\ result' = Accept(mean_o)
    /\ UNCHANGED <<inVars, work, rng, rng_arr, parVars, mean_o, gates, hcalls>>

\* m_update_f64(noise_1, m1, mf); return Accept(mean_o1)
M0Final ==
    /\ fn = "m0" /\ pc = "final"
    /\ IF ~ZipOk(<<work.chi1, work.m1, mf>>)
       THEN pc' = "panic" /\ result' = ZipPanic /\ UNCHANGED mf
       ELSE /\ mf' = m_update_f64(work.chi1, work.m1)
            /\ pc' = "done" /\ result' = Accept(mean_o)
    /\ UNCHANGED <<inVars, work, rng, rng_arr, parVars, mean_o, gates, hcalls>>

----------------------------------------------------------------------------
Next ==
    \/ ParEntry
    \/ \E w \in DOMAIN wk : ParTake(w)
    \/ \E w \in DOMAIN wk : ParSplit(w)
    \/ \E w \in DOMAIN wk : ParInit(w)
    \/ \E w \in DOMAIN wk : ParRow(w)
    \/ \E w \in DOMAIN wk : ParFinish(w)
    \/ ParReduce
    \/ OldEntry
    \/ OldNoise1Done
    \/ OldNoise2Done
    \/ OldStage1
    \/ OldGate
    \/ OldShort
    \/ OldStage21
    \/ OldStage22
    \/ OldFinal
    \/ M1Entry
    \/ M1Noise
    \/ M1Stage1
    \/ M1Gate
    \/ M1Final
    \/ M0Entry
    \/ M0Field
    \/ M0Gate
    \/ M0Rotate
    \/ M0Noise
    \/ M0Final

Spec == Init /\ [][Next]_vars

----------------------------------------------------------------------------
(* What the claims speak of, computed from the inputs of the call and the
   noise held in the workpad *)

\* H(t, m) with the dissipative correction, for every row
FieldOf(t, m) == h_update_par(t, args.eta, args.haml_fn, m, m)

StepResultFns == {"old", "m1", "m0"}

\* Omega11 = (dt/4)(H0 + H1) + chi1 sqrt(dt/2)
Omega11S ==
    Omega11Arr(FieldOf(args.t0, m0), FieldOf(T1, m0), work.chi1, args.delta_t)

\* Omega12 = (dt/6)(H0 + 4 H1 + H2) + (chi1 + chi2) sqrt(dt/2)
Omega12S ==
    Omega2Arr(FieldOf(args.t0, m0), FieldOf(T1, m0), FieldOf(T2, m0),
              work.chi1, work.chi2, args.delta_t)

\* Omega22 = (dt/6)(H0 + 4 H21 + H22) + (chi1 + chi2) sqrt(dt/2)
Omega22S ==
    Omega2Arr(FieldOf(args.t0, m0),
              FieldOf(T1, m_update_par(Omega11S, m0)),
              FieldOf(T2, m_update_par(Omega12S, m0)),
              work.chi1, work.chi2, args.delta_t)

\* the generator of spin_langevin_step_m1: (dt/6)(H0 + 4 H1 + H2) + chi1 sqrt(dt)
OmegaM1S ==
    OmegaM1Arr(FieldOf(args.t0, m0), FieldOf(T1, m0), FieldOf(T2, m0),
               work.chi1, args.delta_t)

\* Omega1 = H1 dt
Omega1S ==
    LET h1 == FieldOf(T1, m0)
    IN  Strict([r \in 1..Rows(m0) |->
           Strict([c \in 1..Cols(m0) |-> VScale(h1[r][c], args.delta_t)])])

Returned == pc = "done" /\ fn \in StepResultFns
Rejected == Returned /\ result.kind = "Reject"
Accepted == Returned /\ result.kind = "Accept"
TwoStage == fn = "old" /\ ~args.stage1_only

----------------------------------------------------------------------------
\* C1: in the steppers that return a StepResult the output buffer is not
\* written before the stability comparison, and a call that returns Reject
\* leaves every cell of mf as it was before the call.
C1_RejectLeavesOutput ==
    (fn \in StepResultFns /\ (gates = <<>> \/ result.kind = "Reject")) => mf = pre.mf

C1_Witness ==
    /\ Rejected /\ fn = "old" /\ Len(gates) = 1
    /\ gates[1].mean >= gates[1].thr /\ gates[1].mean > 0
    /\ mf = pre.mf

\* C2 (as claimed): the two-stage stepper rejects exactly when the mean of
\* |Omega12| reaches the fixed constant MAX_AVG_ANGULAR_FIELD, whatever the
\* options are.
C2_GateIsPi ==
    (Returned /\ TwoStage) =>
        ((result.kind = "Reject") <=> (avg_field(Omega12S) >= MAX_AVG_ANGULAR_FIELD))

\* C2 (amended): spin_langevin_step_old, in both stage1_only modes, rejects
\* exactly when the mean of |Omega12| reaches the caller's opts.h_max;
\* MAX_AVG_ANGULAR_FIELD is the threshold of spin_langevin_step_m1 only, and
\* spin_langevin_step_m0 uses its own h_max parameter.
C2_GateIsHMax ==
    Returned =>
        /\ fn = "old" =>
              /\ (result.kind = "Reject") <=> (avg_field(Omega12S) >= args.h_max)
              /\ gates[1].thr = args.h_max
        /\ fn = "m1" =>
              /\ (result.kind = "Reject") <=> (avg_field(OmegaM1S) >= MAX_AVG_ANGULAR_FIELD)
              /\ gates[1].thr = MAX_AVG_ANGULAR_FIELD
        /\ fn = "m0" =>
              /\ (result.kind = "Reject") <=> (avg_field_f64(Omega1S) >= args.h_max)
              /\ gates[1].thr = args.h_max

C2_Witness ==
    /\ Accepted /\ TwoStage
    /\ avg_field(Omega12S) >= MAX_AVG_ANGULAR_FIELD
    /\ avg_field(Omega12S) < args.h_max

\* the generator the stability gate of the running stepper is meant to see
Stage1Generator ==
    IF fn = "old" THEN Omega12S ELSE IF fn = "m1" THEN OmegaM1S ELSE Omega1S

\* C3 (as claimed): every invocation, the parallel one included, makes exactly
\* one gate check, and no row whose stage-1 generator reached the threshold
\* gets a next spin state.
C3_OneGateEverywhere ==
    /\ pc = "done" => Len(gates) = 1
    /\ (fn = "par" /\ pc \in {"rows", "done"}) =>
          \A w \in DOMAIN wk :
             (wk[w].st = "busy" /\ wk[w].nxt > wk[w].lo) =>
                 avg_field_row(pads[wk[w].pad].omega1) < MAX_AVG_ANGULAR_FIELD

\* C3 (amended): spin_langevin_step_old, spin_langevin_step_m1 and
\* spin_langevin_step_m0 make exactly one gate check, on the stage-1 generator
\* and never on Omega22, and write mf only if it passed; spin_langevin_step
\* (spin_langevin_step_row) makes no gate check at all: it steps and writes
\* every row whatever the generator's magnitude and returns the mean of
\* |Omega22| for the caller to judge.
C3_OneGateInStepResultSteppers ==
    /\ Returned =>
          /\ Len(gates) = 1
          /\ gates[1].gen = Stage1Generator
          /\ gates[1].mean >= gates[1].thr => mf = pre.mf
    /\ fn \in StepResultFns => Len(gates) <= 1
    /\ fn = "par" => gates = <<>>
    /\ (fn = "par" /\ pc = "done") =>
          /\ result.kind = "value"
          /\ \A r \in 1..Rows(m0) :
                rowCnt[r] = 1 /\ Len(hcalls[r]) = 5 /\ mf[r] # pre.mf[r]

C3_Witness ==
    /\ fn = "par" /\ pc = "done" /\ Len(pads) = 1
    /\ avg_field_row(pads[1].omega1) >= MAX_AVG_ANGULAR_FIELD
    /\ mf # pre.mf

\* the workers that hold a batch of rows and the guard they claimed for it
Busy == {w \in DOMAIN wk : wk[w].st = "busy"}

\* C4: during a parallel region every generator of the pool is held by at
\* most one worker, a worker that processes rows holds exactly the guard of
\* the slot at its own thread index and (in spin_langevin_step) a row workpad
\* of its own, the batches of two workers do not overlap, and every row is
\* processed exactly once.
C4_ExclusiveRngAndWorkpad ==
    /\ \A i \in 1..Len(lock) :
          /\ Cardinality({w \in Busy : wk[w].slot = i - 1}) <= 1
          /\ lock[i] <=> (\E w \in Busy : wk[w].slot = i - 1)
    /\ \A w \in Busy :
          /\ wk[w].slot = w
          /\ pc = "rows" => wk[w].pad \in 1..Len(pads)
          /\ \A v \in Busy \ {w} :
                /\ pc = "rows" => wk[v].pad # wk[w].pad
                /\ wk[v].hi < wk[w].lo \/ wk[w].hi < wk[v].lo
    /\ \A r \in DOMAIN rowCnt : rowCnt[r] <= 1
    /\ (pc \in ParPcs /\ ParIdle) => \A r \in DOMAIN rowCnt : rowCnt[r] = 1

C4_Witness ==
    /\ pc = "rows" /\ Busy = {0, 1}
    /\ wk[0].nxt > wk[0].lo /\ wk[1].nxt > wk[1].lo
    /\ lock[1] /\ lock[2]

\* C5: with a pool of at least as many generators as worker threads the
\* try_lock of a worker never finds its slot held, in any splitting and
\* stealing of the rows: a worker about to claim holds no guard, the slot at
\* its index is free, and no step ends in the "unexpected mutex lock" panic.
C5_TryLockSucceeds ==
    /\ result # Panic("unexpected mutex lock")
    /\ \A w \in DOMAIN wk :
          (pc \in ParPcs /\ wk[w].st # "busy" /\ w + 1 <= Len(lock)) => ~lock[w + 1]

C5_Witness ==
    /\ pc = "noise2" /\ fn = "old"
    /\ \E w \in Busy : w = 1 /\ wk[w].lo > 1 /\ wk[w].nxt > wk[w].hi
    /\ Len(rng_arr) >= num_threads

\* C6: with fewer generators than worker threads spin_langevin_step and
\* spin_langevin_step_old abort before a sample is drawn, a callback is
\* invoked or an output cell is written; when the check passes every slot a
\* worker uses lies within the pool.
C6_UnderProvisionedPoolAborts ==
    /\ (fn \in {"old", "par"} /\ Len(rng_arr) < num_threads /\ pc # "entry") =>
          /\ pc = "panic"
          /\ result = Panic("Insufficient number of RNGs for multithreading")
          /\ rng_arr = pre.rng_arr /\ rng = pre.rng
          /\ \A r \in DOMAIN hcalls : hcalls[r] = <<>>
          /\ mf = pre.mf /\ work = pre.work
    /\ result # Panic("index out of bounds")
    /\ \A w \in Busy : wk[w].slot + 1 \in 1..Len(rng_arr)

C6_Witness ==
    /\ fn = "par" /\ pc = "panic" /\ Len(rng_arr) < num_threads
    /\ result = Panic("Insufficient number of RNGs for multithreading")
    /\ mf = pre.mf

\* a precondition of section "fatal precondition violations" is violated at entry
Mismatch ==
    \/ args.b < 0
    \/ Shape(pre.mf) # Shape(m0)
    \/ \E f \in DOMAIN pre.work : Shape(pre.work[f]) # Shape(m0)

\* C7: a shape mismatch between m0, mf and any array of the workpad, or a
\* negative b, aborts spin_langevin_step_old, spin_langevin_step_m1 and
\* spin_langevin_step_m0 before a sample is drawn and before a workpad or
\* output cell is written; no mismatched shape is accepted.
C7_MismatchAbortsAtOnce ==
    (fn \in StepResultFns /\ Mismatch /\ pc # "entry") =>
        /\ pc = "panic"
        /\ rng = pre.rng /\ rng_arr = pre.rng_arr
        /\ work = pre.work
        /\ mf = pre.mf

ShortCircuit == fn = "m1" \/ (fn = "old" /\ args.stage1_only)

\* C9 (as claimed): spin_langevin_step_m1 and spin_langevin_step_old with
\* stage1_only gate the generator Omega12 of the two-stage stepper with its
\* threshold, and on Accept write rotate(Omega12, m0) and return
\* Accept(mean |Omega12|).
C9_ShortCircuitSharesOmega12 ==
    (Returned /\ ShortCircuit) =>
        /\ gates[1].gen = Omega12S
        /\ (result.kind = "Reject") <=> (avg_field(Omega12S) >= args.h_max)
        /\ result.kind = "Accept" =>
              /\ mf = m_update_par(Omega12S, m0)
              /\ result = Accept(avg_field(Omega12S))

\* C9 (amended): spin_langevin_step_old with stage1_only gates Omega12 against
\* opts.h_max as the two-stage path does, and on Accept writes
\* rotate(Omega12, m0) and returns Accept(mean |Omega12|).
\* spin_langevin_step_m1 draws one noise grid only, builds
\* Omega = (dt/6)(H0 + 4 H1 + H2) + chi1 sqrt(dt), rejects exactly when
\* mean |Omega| >= MAX_AVG_ANGULAR_FIELD, and on Accept writes rotate(Omega, m0)
\* and returns Accept(mean |Omega|).
C9_ShortCircuitGenerators ==
    Returned =>
        /\ (fn = "old" /\ args.stage1_only) =>
              /\ gates[1].gen = Omega12S
              /\ (result.kind = "Reject") <=> (avg_field(Omega12S) >= args.h_max)
              /\ result.kind = "Accept" =>
                    /\ mf = m_update_par(Omega12S, m0)
                    /\ result = Accept(avg_field(Omega12S))
        /\ fn = "m1" =>
              /\ gates[1].gen = OmegaM1S
              /\ (result.kind = "Reject") <=>
                    (avg_field(OmegaM1S) >= MAX_AVG_ANGULAR_FIELD)
              /\ rng.n = pre.rng.n + Rows(m0) * Cols(m0)
              /\ work.chi2 = pre.work.chi2
              /\ result.kind = "Accept" =>
                    /\ mf = m_update_par(OmegaM1S, m0)
                    /\ result = Accept(avg_field(OmegaM1S))

C9_Witness ==
    /\ Accepted /\ fn = "m1" /\ args.b = 1
    /\ OmegaM1S # Omega12S
    /\ mf = m_update_par(OmegaM1S, m0)
    /\ mf # m_update_par(Omega12S, m0)

\* the noise generator of the cheap stepper: sample * sqrt(b) * sqrt(dt), the
\* samples taken from the generator in row-major order
NoiseM0S ==
    Strict([r \in 1..Rows(m0) |-> Strict([c \in 1..Cols(m0) |->
        VScale(RandXi(RngAt(pre.rng, (r - 1) * Cols(m0) + c - 1).s, 1),
               ISqrt(args.b) * ISqrt(args.delta_t))])])

\* C10: spin_langevin_step_m0 calls the Hamiltonian once per row, at t1 with
\* the input spins; with Omega1 = H1 dt it returns Reject(mean |Omega1|) when
\* the mean reaches h_max, having drawn nothing, and otherwise draws one sample
\* per cell, writes mf = rotate(sample sqrt(b) sqrt(dt), rotate(Omega1, m0)) and
\* returns Accept(mean |Omega1|).
C10_CheapStepper ==
    (fn = "m0" /\ pc = "done") =>
        /\ \A r \in 1..Rows(m0) : hcalls[r] = <<[t |-> T1, m |-> m0[r]]>>
        /\ (result.kind = "Reject") <=> (avg_field_f64(Omega1S) >= args.h_max)
        /\ result.kind = "Reject" =>
              /\ result = Reject(avg_field_f64(Omega1S))
              /\ rng = pre.rng /\ mf = pre.mf
        /\ result.kind = "Accept" =>
              /\ result = Accept(avg_field_f64(Omega1S))
              /\ rng.n = pre.rng.n + Rows(m0) * Cols(m0)
              /\ mf = m_update_f64(NoiseM0S, m_update_f64(Omega1S, m0))

C10_Witness ==
    /\ Accepted /\ fn = "m0" /\ args.b = 1
    /\ result.metric > 0
    /\ mf = m_update_f64(NoiseM0S, m_update_f64(Omega1S, m0))
    /\ mf # m_update_f64(Omega1S, m0)
    /\ mf # m_update_f64(NoiseM0S, m0)

----------------------------------------------------------------------------
(* The bulk two-stage stepper as a function of its inputs and noise grids *)

\* the generators of spin_langevin_step_old for the noise grids c1, c2
Omega11With(c1) ==
    Omega11Arr(FieldOf(args.t0, m0), FieldOf(T1, m0), c1, args.delta_t)

Omega12With(c1, c2) ==
    Omega2Arr(FieldOf(args.t0, m0), FieldOf(T1, m0), FieldOf(T2, m0),
              c1, c2, args.delta_t)

Omega22With(c1, c2) ==
    Omega2Arr(FieldOf(args.t0, m0),
              FieldOf(T1, m_update_par(Omega11With(c1), m0)),
              FieldOf(T2, m_update_par(Omega12With(c1, c2), m0)),
              c1, c2, args.delta_t)

\* what spin_langevin_step_old with stage1_only = false and opts.h_max = hm
\* returns and leaves in mf, given the noise grids c1 and c2
BulkTwoStage(hm, c1, c2) ==
    LET mean_o12 == avg_field(Omega12With(c1, c2))
    IN  IF mean_o12 >= hm
        THEN [result |-> Reject(mean_o12), mf |-> pre.mf]
        ELSE [result |-> Accept(avg_field(Omega22With(c1, c2))),
              mf |-> m_update_par(Omega22With(c1, c2), m0)]

\* a finished parallel step over a one-row array
OneRowParDone == fn = "par" /\ pc = "done" /\ Rows(m0) = 1 /\ Len(rowLog[1]) = 1

\* C11 (as claimed): on a one-row array, with the noise the row was handed,
\* spin_langevin_step_row leaves the output spins and the metric that
\* spin_langevin_step_old leaves, whatever opts the bulk stepper is given.
C11_RowEqualsBulk ==
    OneRowParDone =>
        \A hm \in HMaxs :
            LET bulk == BulkTwoStage(hm, <<rowLog[1][1].chi1>>, <<rowLog[1][1].chi2>>)
            IN  mf = bulk.mf /\ result.metric = bulk.result.metric

\* C11 (amended): on a one-row array, with the noise the row was handed,
\* spin_langevin_step_row leaves the output spins and the metric of
\* spin_langevin_step_old whenever the bulk stepper accepts; when the bulk
\* stepper rejects (mean |Omega12| >= opts.h_max) it writes nothing and returns
\* mean |Omega12|, while the row stepper, which has no gate, still writes
\* rotate(Omega22, m0) and yields mean |Omega22|.  On exit the row stepper's
\* slot omega1 holds Omega12 and omega2 holds Omega22.
C11_RowEqualsAcceptedBulk ==
    /\ OneRowParDone =>
          /\ \A hm \in HMaxs :
                LET bulk == BulkTwoStage(hm, <<rowLog[1][1].chi1>>,
                                         <<rowLog[1][1].chi2>>)
                IN  bulk.result.kind = "Accept" =>
                        mf = bulk.mf /\ result.metric = bulk.result.metric
          /\ mf = m_update_par(Omega22With(<<rowLog[1][1].chi1>>,
                                           <<rowLog[1][1].chi2>>), m0)
          /\ <<rowLog[1][1].omega1>> =
                Omega12With(<<rowLog[1][1].chi1>>, <<rowLog[1][1].chi2>>)
          /\ <<rowLog[1][1].omega2>> =
                Omega22With(<<rowLog[1][1].chi1>>, <<rowLog[1][1].chi2>>)
    /\ (Returned /\ TwoStage) =>
          LET bulk == BulkTwoStage(args.h_max, work.chi1, work.chi2)
          IN  mf = bulk.mf /\ result = bulk.result

C11_Witness ==
    /\ OneRowParDone /\ args.b = 1 /\ args.eta = 1
    /\ BulkTwoStage(50, <<rowLog[1][1].chi1>>, <<rowLog[1][1].chi2>>).result.kind
          = "Accept"
    /\ BulkTwoStage(1, <<rowLog[1][1].chi1>>, <<rowLog[1][1].chi2>>).result.kind
          = "Reject"
    /\ mf = BulkTwoStage(50, <<rowLog[1][1].chi1>>, <<rowLog[1][1].chi2>>).mf
    /\ mf # pre.mf

----------------------------------------------------------------------------
(* One row of the parallel step as a function of its input and its noise *)

\* the output row spin_langevin_step_row writes for row r when handed the
\* noise rows c1, c2 in a freshly built row workpad
RowStepOf(r, c1, c2) ==
    spin_langevin_step_row(args.t0, args.delta_t, args.eta, args.haml_fn, m0[r],
        [SpinLangevinRowWorkpad_from_shape(Cols(m0)) EXCEPT !.chi1 = c1, !.chi2 = c2])

\* the two noise rows drawn from generator g after k earlier samples
NoiseFrom(g, k) ==
    [chi1 |-> DrawRow(RngAt(g, k), Cols(m0), LaneW, ISqrt(args.b)),
     chi2 |-> DrawRow(RngAt(g, k + Cols(m0)), Cols(m0), LaneW, ISqrt(args.b))]

\* the output of the schedule in which one worker steps all rows in order
\* with the first generator of the pool
InOrderOutput ==
    Strict([r \in 1..Rows(m0) |->
        LET nz == NoiseFrom(pre.rng_arr[1], 2 * Cols(m0) * (r - 1))
        IN  RowStepOf(r, nz.chi1, nz.chi2).mf])

ParDone == fn = "par" /\ pc = "done"

\* C12 (as claimed): for a fixed pool the output of spin_langevin_step is the
\* same under every assignment of rows to workers, every completion order and
\* every worker count: it is the output of the in-order schedule.
C12_OutputSameForEverySchedule ==
    ParDone => mf = InOrderOutput

\* C12 (amended): every row of the output of spin_langevin_step is a function
\* of that row's input spins and of the two noise rows drawn for it, and of no
\* other row; the noise rows are consecutive samples of the generator of the
\* worker that stepped the row, so with b = 0 the output is the same under
\* every assignment, order and worker count, while with b > 0 it varies with
\* the assignment of rows to workers.
C12_RowsDependOnOwnNoiseOnly ==
    ParDone =>
        /\ \A r \in 1..Rows(m0) :
              /\ Len(rowLog[r]) = 1
              /\ mf[r] = RowStepOf(r, rowLog[r][1].chi1, rowLog[r][1].chi2).mf
              /\ \E i \in 1..Len(rng_arr), j \in 0..(Rows(m0) - 1) :
                    LET nz == NoiseFrom(pre.rng_arr[i], 2 * Cols(m0) * j)
                    IN  rowLog[r][1].chi1 = nz.chi1 /\ rowLog[r][1].chi2 = nz.chi2
        /\ args.b = 0 => mf = InOrderOutput

C12_Witness ==
    /\ ParDone /\ args.b = 1 /\ num_threads = 2 /\ Rows(m0) = 2
    /\ mf # InOrderOutput
    /\ \A r \in 1..Rows(m0) :
          mf[r] = RowStepOf(r, rowLog[r][1].chi1, rowLog[r][1].chi2).mf

\* H(t, m) with the dissipative correction, for one row
RowField(t, m_row) == h_update_row(t, args.eta, args.haml_fn, m_row, m_row)

\* the generators of row r for the noise rows it was handed
RowOmega11(r) ==
    Omega11Row(RowField(args.t0, m0[r]), RowField(T1, m0[r]),
               rowLog[r][1].chi1, args.delta_t)

RowOmega12(r) ==
    Omega2Row(RowField(args.t0, m0[r]), RowField(T1, m0[r]), RowField(T2, m0[r]),
              rowLog[r][1].chi1, rowLog[r][1].chi2, args.delta_t)

RowOmega22(r) ==
    Omega2Row(RowField(args.t0, m0[r]),
              RowField(T1, m_update_row(RowOmega11(r), m0[r])),
              RowField(T2, m_update_row(RowOmega12(r), m0[r])),
              rowLog[r][1].chi1, rowLog[r][1].chi2, args.delta_t)

\* C13: spin_langevin_step returns the sum over the rows of the row's mean
\* |Omega22| divided by the number of rows, in whatever order the rows
\* complete; when spin_langevin_step_row returns, the slot omega2 holds
\* Omega22 and the slot omega1 holds Omega12.
C13_MetricIsMeanOfRowMeans ==
    ParDone =>
        /\ \A r \in 1..Rows(m0) :
              /\ Len(rowLog[r]) = 1
              /\ rowLog[r][1].omega2 = RowOmega22(r)
              /\ rowLog[r][1].omega1 = RowOmega12(r)
        /\ result =
              [kind |-> "value",
               metric |-> SumTo(Strict([r \in 1..Rows(m0) |->
                                   avg_field_row(RowOmega22(r))]), Rows(m0))
                          \div Rows(m0)]

C13_Witness ==
    /\ ParDone /\ Rows(m0) = 2 /\ num_threads = 2 /\ args.b = 1
    /\ avg_field_row(RowOmega22(1)) # avg_field_row(RowOmega22(2))
    /\ RowOmega12(1) # RowOmega22(1)
    /\ avg_field_row(RowOmega12(1)) + avg_field_row(RowOmega12(2))
          # avg_field_row(RowOmega22(1)) + avg_field_row(RowOmega22(2))
    /\ result.metric =
          (avg_field_row(RowOmega22(1)) + avg_field_row(RowOmega22(2))) \div 2

----------------------------------------------------------------------------
(* The steppers as functions of the arguments and generators of the call,
   with no reference to the workpad *)

\* the noise grids one worker draws from the first generator of the pool
OldNoise1S == DrawArr(pre.rng_arr[1], m0, LaneW, ISqrt(args.b))

OldNoise2S ==
    DrawArr(RngAt(pre.rng_arr[1], Rows(m0) * Cols(m0)), m0, LaneW, ISqrt(args.b))

\* the noise grid of spin_langevin_step_m1
M1NoiseS == DrawArr(pre.rng, m0, LaneW, ISqrt(args.b))

\* spin_langevin_step_old for the noise grids c1, c2
OldWith(c1, c2) ==
    IF ~args.stage1_only THEN BulkTwoStage(args.h_max, c1, c2)
    ELSE LET mean_o12 == avg_field(Omega12With(c1, c2))
         IN  IF mean_o12 >= args.h_max
             THEN [result |-> Reject(mean_o12), mf |-> pre.mf]
             ELSE [result |-> Accept(mean_o12),
                   mf |-> m_update_par(Omega12With(c1, c2), m0)]

\* spin_langevin_step_m1 for the noise grid c1
M1With(c1) ==
    LET omega == OmegaM1Arr(FieldOf(args.t0, m0), FieldOf(T1, m0), FieldOf(T2, m0),
                            c1, args.delta_t)
        mean_o12 == avg_field(omega)
    IN  IF mean_o12 >= MAX_AVG_ANGULAR_FIELD
        THEN [result |-> Reject(mean_o12), mf |-> pre.mf]
        ELSE [result |-> Accept(mean_o12), mf |-> m_update_par(omega, m0)]

\* spin_langevin_step_m0
M0Expected ==
    LET mean_o1 == avg_field_f64(Omega1S)
    IN  IF mean_o1 >= args.h_max
        THEN [result |-> Reject(mean_o1), mf |-> pre.mf]
        ELSE [result |-> Accept(mean_o1),
              mf |-> m_update_f64(NoiseM0S, m_update_f64(Omega1S, m0))]

\* the workpad handed to the call was left filled by earlier use
ReusedWorkpad == fn \in StepResultFns /\ pre.work = FillWork(pre.work, 9)

\* C14 (as claimed): every array of the workpad is overwritten by a step call,
\* and the result and the output spins do not depend on what it held at entry.
C14_WorkpadFullyOverwritten ==
    Returned =>
        /\ \A f \in DOMAIN work : ReusedWorkpad => work[f] # pre.work[f]
        /\ fn = "old" => [result |-> result, mf |-> mf] = OldWith(work.chi1, work.chi2)
        /\ fn = "m1" => [result |-> result, mf |-> mf] = M1With(M1NoiseS)
        /\ fn = "m0" => [result |-> result, mf |-> mf] = M0Expected

\* C14 (amended): every workpad cell a step call reads is written earlier in
\* that call, so the result and the output spins are functions of the input
\* spins, the parameters and the generators alone, whatever the workpad held
\* at entry (a row workpad reused for several rows and a workpad reused after
\* a Reject included).  The workpad is not fully overwritten:
\* spin_langevin_step_old never writes m0 and m1, spin_langevin_step_m1 never
\* writes m0, m1, omega1 and chi2, spin_langevin_step_m0 never writes m0 and
\* h1, and a rejected spin_langevin_step_m0 leaves m1 and chi1 too.
C14_ResultIndependentOfWorkpad ==
    /\ Returned =>
          /\ fn = "old" =>
                /\ [result |-> result, mf |-> mf] = OldWith(work.chi1, work.chi2)
                /\ num_threads = 1 =>
                      /\ work.chi1 = OldNoise1S /\ work.chi2 = OldNoise2S
                      /\ [result |-> result, mf |-> mf] = OldWith(OldNoise1S, OldNoise2S)
                /\ work.m0 = pre.work.m0 /\ work.m1 = pre.work.m1
          /\ fn = "m1" =>
                /\ [result |-> result, mf |-> mf] = M1With(M1NoiseS)
                /\ work.m0 = pre.work.m0 /\ work.m1 = pre.work.m1
                /\ work.omega1 = pre.work.omega1 /\ work.chi2 = pre.work.chi2
          /\ fn = "m0" =>
                /\ [result |-> result, mf |-> mf] = M0Expected
                /\ work.m0 = pre.work.m0 /\ work.h1 = pre.work.h1
                /\ result.kind = "Reject" =>
                      work.m1 = pre.work.m1 /\ work.chi1 = pre.work.chi1
    /\ ParDone =>
          \A r \in 1..Rows(m0) :
             mf[r] = RowStepOf(r, rowLog[r][1].chi1, rowLog[r][1].chi2).mf

C14_Witness ==
    /\ Accepted /\ TwoStage /\ ReusedWorkpad
    /\ [result |-> result, mf |-> mf] = OldWith(OldNoise1S, OldNoise2S)
    /\ work.m0 = pre.work.m0 /\ work.m1 = pre.work.m1
    /\ work.omega2 # pre.work.omega2

----------------------------------------------------------------------------
(* The order of the Hamiltonian callback's invocations in spin_langevin_step_old *)

\* what one invocation and the correction after it leave in the row of a field buffer
Corrected(call, h_row) ==
    sl_add_dissipative(HamlFn(args.haml_fn, call.t, call.m, h_row), call.m, args.eta)

\* m21 = rotate(Omega11, m0) and m22 = rotate(Omega12, m0)
M21S == m_update_par(Omega11S, m0)
M22S == m_update_par(Omega12S, m0)

Stage1Calls(r) ==
    <<[t |-> args.t0, m |-> m0[r]], [t |-> T1, m |-> m0[r]], [t |-> T2, m |-> m0[r]]>>

Stage2Calls(r) ==
    <<[t |-> T1, m |-> M21S[r]], [t |-> T2, m |-> M22S[r]]>>

\* C17: spin_langevin_step_old invokes the callback, per row, first with
\* (t0, m0), (t1, m0), (t2, m0); a rejected step makes no further invocation; an
\* accepted two-stage step makes exactly two more, (t1, m21) and (t2, m22),
\* in this order, and never evaluates H0 again.  Every field buffer holds what
\* the last invocation that wrote it returned, corrected by the dissipative
\* term with the spin state passed to that invocation.
C17_CallbackOrder ==
    fn = "old" =>
      /\ pc = "gate" \/ Rejected \/ (Accepted /\ ~TwoStage) =>
           \A r \in 1..Rows(m0) :
              /\ hcalls[r] = Stage1Calls(r)
              /\ work.h0[r] = Corrected(hcalls[r][1], work.h0[r])
              /\ work.h1[r] = Corrected(hcalls[r][2], work.h1[r])
              /\ work.h2[r] = Corrected(hcalls[r][3], work.h2[r])
      /\ pc = "stage2_22" =>
           \A r \in 1..Rows(m0) :
              /\ hcalls[r] = Stage1Calls(r) \o <<Stage2Calls(r)[1]>>
              /\ work.h1[r] = Corrected(hcalls[r][4], work.h1[r])
      /\ Accepted /\ TwoStage =>
           \A r \in 1..Rows(m0) :
              /\ hcalls[r] = Stage1Calls(r) \o Stage2Calls(r)
              /\ work.h0[r] = Corrected(hcalls[r][1], work.h0[r])
              /\ work.h1[r] = Corrected(hcalls[r][4], work.h1[r])
              /\ work.h2[r] = Corrected(hcalls[r][5], work.h2[r])

\* an accepted two-stage step whose rotated states differ from m0 and from
\* each other, with a state-dependent field and a nonzero damping
C17_Witness ==
    /\ Accepted /\ TwoStage /\ args.eta # 0 /\ args.haml_fn = "shift"
    /\ \E r \in 1..Rows(m0) :
          /\ Len(hcalls[r]) = 5
          /\ hcalls[r][4].m # m0[r]
          /\ hcalls[r][5].m # hcalls[r][4].m
          /\ work.h1[r] # Corrected(hcalls[r][2], work.h1[r])

----------------------------------------------------------------------------
(* Noise draws and the gate *)

\* the cells of a noise grid of the call: one rand_xi_f sample each
Cells == Rows(m0) * Cols(m0)

\* the samples drawn so far from the generators of a pool
Drawn(pool) == SumTo(Strict([i \in 1..Len(pool) |-> pool[i].n]), Len(pool))

\* C18: spin_langevin_step_old has drawn two samples per cell from its pool and
\* spin_langevin_step_m1 one sample per cell from its generator whenever they
\* return, with Reject as with Accept, and the noise grids then hold those
\* samples; spin_langevin_step_m0 draws one sample per cell when it accepts
\* and, when it rejects, leaves its generator and the workpad's chi1 and m1 as
\* they were at entry.
C18_DrawsDoNotRollBack ==
    Returned =>
      /\ fn = "old" =>
           /\ Drawn(rng_arr) = Drawn(pre.rng_arr) + 2 * Cells
           /\ rng = pre.rng
           /\ num_threads = 1 =>
                /\ rng_arr[1] = RngAt(pre.rng_arr[1], 2 * Cells)
                /\ work.chi1 = OldNoise1S /\ work.chi2 = OldNoise2S
      /\ fn = "m1" =>
           /\ rng = RngAt(pre.rng, Cells)
           /\ rng_arr = pre.rng_arr
           /\ work.chi1 = M1NoiseS
      /\ fn = "m0" /\ Accepted =>
           /\ rng = RngAt(pre.rng, Cells)
           /\ work.chi1 = NoiseM0S
      /\ fn = "m0" /\ Rejected =>
           /\ rng = pre.rng
           /\ work.chi1 = pre.work.chi1
           /\ work.m1 = pre.work.m1

\* a rejected call of spin_langevin_step_m0 with a nonzero noise strength on a
\* workpad whose chi1 would differ from the grid an accepted call draws
C18_Witness ==
    /\ fn = "m0" /\ Rejected /\ args.b > 0 /\ Cells > 0
    /\ work.chi1 # NoiseM0S
    /\ RngAt(rng, Cells) # rng

----------------------------------------------------------------------------
(* xyz_to_array_chunks *)

MaxN == 5
MaxChunks == 2

\* the width of usize in the model
UsizeBits == 16

\* n - 1 on usize without overflow checks
WrappingDec(n) == (n - 1) % (2 ^ UsizeBits)

\* let n_ch = (n-1)/4 + 1
ChunkCount(n) == WrappingDec(n) \div 4 + 1

\* the number of chunks ArrayView2::axis_chunks_iter(&arr, Axis(0), 4) yields
AxisChunks(n) == (n + LaneW - 1) \div LaneW

\* an N x ncols matrix whose entry (r, c) is 10 r + c
MatrixOf(n, ncols) ==
    [shape |-> <<n, ncols>>,
     dat |-> Strict([r \in 1..n |-> Strict([c \in 1..ncols |-> 10 * r + c])])]

\* a chunk array of len packed vectors, every lane of which holds v
ChunksOf(len, v) == Strict([ch \in 1..len |-> Bcast(v, v, v, LaneW)])

\* faulty variant: the lanes of a partial chunk beyond the last row are zeroed
PackChunks_ZeroPad(a, chunks) ==
    Strict([ch \in 1..Len(chunks) |->
        IF ch > AxisChunks(a.shape[1]) THEN chunks[ch]
        ELSE Strict([k \in 1..3 |-> Strict([l \in 1..LaneW |->
                 IF LaneW * (ch - 1) + l <= a.shape[1]
                 THEN a.dat[LaneW * (ch - 1) + l][k]
                 ELSE 0])])])

\* the zip of the row chunks with chunk_array.iter_mut(): x2.dat[l] = x1[l] for
\* the rows the chunk has
PackChunks(a, chunks) ==
    Strict([ch \in 1..Len(chunks) |->
        IF ch > AxisChunks(a.shape[1]) THEN chunks[ch]
        ELSE Strict([k \in 1..3 |-> Strict([l \in 1..LaneW |->
                 IF LaneW * (ch - 1) + l <= a.shape[1]
                 THEN a.dat[LaneW * (ch - 1) + l][k]
                 ELSE chunks[ch][k][l]])])])

\* the marks a chunk array may hold before the call
Marks == {-1, 0}

\* Calls of xyz_to_array_chunks; overflow_checks says whether the build traps
\* integer overflow (debug) or wraps (release)
InitXyz ==
    \E n \in 0..MaxN, ncols \in 2..4, len \in 0..MaxChunks, v \in Marks,
       oc \in BOOLEAN :
       /\ fn = "xyz"
       /\ pc = "entry"
       /\ args = [overflow_checks |-> oc]
       /\ arr = MatrixOf(n, ncols)
       /\ chunk_array = ChunksOf(len, v)
       /\ pre = [chunk_array |-> chunk_array]
       /\ m0 = <<>> /\ mf = <<>> /\ work = <<>>
       /\ rng = [s |-> 0, n |-> 0] /\ rng_arr = <<>> /\ lock = <<>>
       /\ num_threads = 1
       /\ tasks = {} /\ wk = <<>> /\ pads = <<>> /\ rowCnt = <<>> /\ acc = 0
       /\ rowLog = <<>> /\ mean_o = 0 /\ gates = <<>> /\ hcalls = <<>>
       /\ result = NoResult

\* the checks of the shape and of the chunk count
XyzCheck ==
    /\ fn = "xyz" /\ pc = "entry"
    /\ LET n == arr.shape[1] IN
       IF arr.shape[2] # 3
       THEN /\ pc' = "panic"
            /\ result' = Panic("xyz_to_array_chunks: 3 spatial dimensions required.")
       ELSE IF args.overflow_checks /\ n - 1 < 0
       THEN /\ pc' = "panic"
            /\ result' = Panic("attempt to subtract with overflow")
       ELSE IF Len(chunk_array) # ChunkCount(n)
       THEN /\ pc' = "panic"
            /\ result' = Panic("xyz_to_array_chunks: mismatching chunk size")
       ELSE pc' = "copy" /\ UNCHANGED result
    /\ UNCHANGED <<fn, args, m0, mf, work, rng, rng_arr, lock, num_threads, parVars,
                   mean_o, gates, hcalls, pre, arr, chunk_array>>

\* the copy loop
XyzCopy ==
    /\ fn = "xyz" /\ pc = "copy"
    /\ chunk_array' = PackChunks(arr, chunk_array)
    /\ pc' = "done"
    /\ UNCHANGED <<fn, args, m0, mf, work, rng, rng_arr, lock, num_threads, parVars,
                   mean_o, gates, hcalls, result, pre, arr>>

NextXyz == XyzCheck \/ XyzCopy

SpecXyz == InitXyz /\ [][NextXyz]_vars

\* C15: xyz_to_array_chunks accepts its input exactly when the matrix has 3
\* columns and the chunk array has ceil(N/4) elements, for every N >= 0, N = 0
\* included; every other input is a fatal failure before a chunk is written.
C15_AcceptsExactlyCeil ==
    (fn = "xyz" /\ pc # "entry") =>
        /\ (pc \in {"copy", "done"}) <=>
              (arr.shape[2] = 3 /\ Len(chunk_array) = AxisChunks(arr.shape[1]))
        /\ pc = "panic" => chunk_array = pre.chunk_array

\* C16: after xyz_to_array_chunks on an N x 3 matrix, lane r mod 4 of chunk
\* r div 4 holds the three components of row r for every r < N, and the lanes
\* of the last chunk that belong to no row hold what they held before.
C16_LanesHoldRows ==
    (fn = "xyz" /\ pc = "done") =>
        /\ \A r \in 0..(arr.shape[1] - 1) : \A k \in 1..3 :
              chunk_array[(r \div 4) + 1][k][(r % 4) + 1] = arr.dat[r + 1][k]
        /\ \A ch \in 1..Len(chunk_array) : \A l \in 1..4 : \A k \in 1..3 :
              4 * (ch - 1) + (l - 1) >= arr.shape[1] =>
                  chunk_array[ch][k][l] = pre.chunk_array[ch][k][l]

C16_Witness ==
    /\ fn = "xyz" /\ pc = "done" /\ arr.shape[1] = 5
    /\ chunk_array[2][1][1] = arr.dat[5][1]
    /\ chunk_array[2][3][1] = arr.dat[5][3]
    /\ chunk_array[2][1][2] = -1
    /\ chunk_array[1][2][4] = arr.dat[4][2]

====
